---- MODULE Spec2Model ----
(***************************************************************************)
(* Model of imfit/model.py: the description hierarchy                      *)
(*   ParameterDescription -> FunctionDescription ->                        *)
(*   FunctionSetDescription -> ModelDescription / SimpleModelDescription   *)
(* as a heap of objects with identity.  Python attribute values that are   *)
(* references (a Parameter held in a list, the list held in `limits`, the  *)
(* `_functions` list of a FunctionSet) are indices into the heap           *)
(* sequences, so that the aliasing made by copy() is visible.  Objects     *)
(* that a call allocates and drops before it returns are not allocated.    *)
(*                                                                         *)
(* Numbers: Python floats are modelled by integers.  Every value a caller  *)
(* passes is even and a tolerance is given in halves (t stands for t/2),   *)
(* so value*(1-tol) and value*(1+tol) are exact.                           *)
(***************************************************************************)
EXTENDS Integers, Sequences, FiniteSets, TLC

VARIABLES
    params,   \* heap of ParameterDescription objects
    lists,    \* heap of the mutable lists held in `limits`
    funcs,    \* heap of FunctionDescription objects
    flists,   \* heap of the `_functions` lists
    fsets,    \* heap of FunctionSetDescription objects
    models,   \* heap of ModelDescription / SimpleModelDescription objects
    raised,   \* the exception the last call raised, "" if it returned
    hist      \* history: the successful adds in call order, and what copy() copied

vars == <<params, lists, funcs, flists, fsets, models, raised, hist>>

heap == <<params, lists, funcs, flists, fsets, models>>

(***************************************************************************)
(* Bounds: the sizes of the heap each specification explores.  In SpecBuild *)
(* and SpecTree a count of Parameters is a count of the Parameters a       *)
(* caller builds or copies; the X0 and Y0 of a FunctionSet come with it.   *)
(***************************************************************************)
MaxParamObjs == 1
MaxParamLists == 1
MaxParams == 2
MaxLists == 1
MaxFuncs == 2
MaxFuncParams == 1
MaxFailParams == 2
MaxFailFuncs == 2
MaxFailFuncParams == 2
MaxFailSets == 1
MaxFailModels == 1
MaxBuildParams == 2
MaxBuildFuncs == 2
MaxBuildFuncParams == 2
MaxBuildSets == 2
MaxBuildModels == 1
MaxTreeParams == 1
MaxTreeFuncs == 2
MaxTreeFuncParams == 1
MaxTreeSets == 2
MaxTreeModels == 2

(***************************************************************************)
(* Inputs.                                                                 *)
(***************************************************************************)
Values == {-2, 2}
LimitValues == {-2, 0, 2}
LimitPairs == {<<0, 2>>}
Deltas == {-2, 0, 2}
Tols == {-1, 1, 3}
ParamNames == {"I_0", "sigma"}
FuncTypes == {"Gaussian", "Moffat"}
SetNames == {"fs", "fs2"}
NoName == "None"

(***************************************************************************)
(* References and the values of `limits`.                                  *)
(***************************************************************************)
Ref(k, i) == [kind |-> k, id |-> i]
NoRef == Ref("None", 0)

NoLimits == [kind |-> "None", ref |-> 0, lo |-> 0, hi |-> 0]
TupleLimits(a, b) == [kind |-> "tuple", ref |-> 0, lo |-> a, hi |-> b]
ListLimits(i) == [kind |-> "list", ref |-> i, lo |-> 0, hi |-> 0]

\* limits[0] and limits[1] of a limits value, read through the heap of lists ls
Lower(ls, lim) == IF lim.kind = "list" THEN ls[lim.ref][1] ELSE lim.lo
Upper(ls, lim) == IF lim.kind = "list" THEN ls[lim.ref][2] ELSE lim.hi

Init ==
    /\ params = <<>>
    /\ lists = <<>>
    /\ funcs = <<>>
    /\ flists = <<>>
    /\ fsets = <<>>
    /\ models = <<>>
    /\ raised = ""
    /\ hist = [func |-> <<>>, flist |-> <<>>, model |-> <<>>, copyOf |-> <<>>]

(***************************************************************************)
(* ParameterDescription                                                    *)
(***************************************************************************)

\* The limits argument of a call: None, a list or a tuple the caller builds
\* for the call, or ("own") the object the Parameter holds in its limits.
NewLimitArgs ==
    {[src |-> "none", pair |-> <<0, 0>>]}
        \cup {[src |-> s, pair |-> pr] : s \in {"list", "tuple"}, pr \in LimitPairs}

LimitArgs == NewLimitArgs \cup {[src |-> "own", pair |-> <<0, 0>>]}

\* the heap of lists once the caller has built the argument
ArgLists(a) == IF a.src = "list" THEN Append(lists, a.pair) ELSE lists

\* the value bound to the formal parameter `limits` in a call on Parameter p
ArgLimits(a, p) ==
    CASE a.src = "none" -> NoLimits
      [] a.src = "list" -> ListLimits(Len(lists) + 1)
      [] a.src = "tuple" -> TupleLimits(a.pair[1], a.pair[2])
      [] a.src = "own" -> params[p].limits

\* A setValue that keeps the old limits when called without limits.
StoreValueKeepsLimits(old, value, lim, fixed) ==
    [name |-> old.name, value |-> value,
     limits |-> IF lim.kind = "None" THEN old.limits ELSE lim, fixed |-> fixed]

\* lines 49-52: the three attribute assignments of setValue
StoreValue(old, value, lim, fixed) ==
    [name |-> old.name, value |-> value, limits |-> lim, fixed |-> fixed]

\* setValue on Parameter p of heap (ps, ls): the error raised ("" if none) and
\* the heap afterwards.  limits[i] = value on a tuple raises TypeError before
\* anything is assigned.
setValue(ps, ls, p, value, lim, fixed) ==
    LET below == lim.kind # "None" /\ value < Lower(ls, lim)
        above == lim.kind # "None" /\ ~below /\ value > Upper(ls, lim)
        ls2 == IF below /\ lim.kind = "list" THEN [ls EXCEPT ![lim.ref][1] = value]
               ELSE IF above /\ lim.kind = "list" THEN [ls EXCEPT ![lim.ref][2] = value]
               ELSE ls
    IN  IF (below \/ above) /\ lim.kind = "tuple"
        THEN [err |-> "TypeError", params |-> ps, lists |-> ls]
        ELSE [err |-> "",
              params |-> [ps EXCEPT ![p] = StoreValue(@, value, lim, fixed)],
              lists |-> ls2]

\* ParameterDescription(name, value, limits, fixed): lines 15-17
NewParameter(name, value, a, fixed) ==
    LET blank == [name |-> name, value |-> 0, limits |-> NoLimits, fixed |-> FALSE]
        new == Len(params) + 1
        r == setValue(Append(params, blank), ArgLists(a), new, value, ArgLimits(a, new), fixed)
    IN  /\ a.src # "own"
        /\ raised' = r.err
        /\ IF r.err = ""
           THEN /\ params' = r.params
                /\ lists' = r.lists
                /\ hist' = [hist EXCEPT !.copyOf = Append(@, 0)]
           ELSE UNCHANGED <<params, lists, hist>>
        /\ UNCHANGED <<funcs, flists, fsets, models>>

\* p.setValue(value, limits, fixed)
SetValue(p, value, a, fixed) ==
    LET r == setValue(params, ArgLists(a), p, value, ArgLimits(a, p), fixed)
    IN  /\ raised' = r.err
        /\ IF r.err = ""
           THEN params' = r.params /\ lists' = r.lists
           ELSE UNCHANGED <<params, lists>>
        /\ UNCHANGED <<funcs, flists, fsets, models, hist>>

\* line 67: the range check of setTolerance; t stands for the tolerance t/2
BadTolerance(t) == t > 2 \/ t < 0

\* line 69
ToleranceLimits(value, t) ==
    TupleLimits((value * (2 - t)) \div 2, (value * (2 + t)) \div 2)

\* setTolerance on a Parameter record: lines 67-69
setTolerance(par, t) ==
    IF BadTolerance(t)
    THEN [err |-> "Exception", param |-> par]
    ELSE [err |-> "", param |-> [par EXCEPT !.limits = ToleranceLimits(par.value, t)]]

\* p.setTolerance(t/2)
SetTolerance(p, t) ==
    LET r == setTolerance(params[p], t)
    IN  /\ raised' = r.err
        /\ params' = [params EXCEPT ![p] = r.param]
        /\ UNCHANGED <<lists, funcs, flists, fsets, models, hist>>

\* A setLimits that stores the pair before it validates it.
setLimitsStoresFirst(par, v1, v2) ==
    [err |-> IF v1 >= v2 THEN "Exception" ELSE "",
     param |-> [par EXCEPT !.limits = TupleLimits(v1, v2)]]

\* setLimits on a Parameter record: lines 102-108.  The statements after the
\* raise (lines 104-107) are never executed.
setLimits(par, v1, v2) ==
    IF v1 >= v2
    THEN [err |-> "Exception", param |-> par]
    ELSE [err |-> "", param |-> [par EXCEPT !.limits = TupleLimits(v1, v2)]]

\* p.setLimits(v1, v2)
SetLimits(p, v1, v2) ==
    LET r == setLimits(params[p], v1, v2)
    IN  /\ raised' = r.err
        /\ params' = [params EXCEPT ![p] = r.param]
        /\ UNCHANGED <<lists, funcs, flists, fsets, models, hist>>

\* setLimitsRel on a Parameter record: lines 85-87
setLimitsRel(par, i1, i2) ==
    IF i1 < 0 \/ i2 < 0
    THEN [err |-> "Exception", param |-> par]
    ELSE setLimits(par, par.value - i1, par.value + i2)

\* p.setLimitsRel(i1, i2)
SetLimitsRel(p, i1, i2) ==
    LET r == setLimitsRel(params[p], i1, i2)
    IN  /\ raised' = r.err
        /\ params' = [params EXCEPT ![p] = r.param]
        /\ UNCHANGED <<lists, funcs, flists, fsets, models, hist>>

(***************************************************************************)
(* FunctionDescription                                                     *)
(***************************************************************************)

\* every object a caller can hold
Objects ==
    {Ref("Parameter", i) : i \in 1..Len(params)}
        \cup {Ref("Function", i) : i \in 1..Len(funcs)}
        \cup {Ref("FunctionSet", i) : i \in 1..Len(fsets)}
        \cup {Ref("Model", i) : i \in 1..Len(models)}

\* FunctionDescription(func_type, name): lines 123-131, name defaults to func_type
NewFunction(funcType, name) ==
    /\ funcs' = Append(funcs, [funcType |-> funcType,
                               name |-> IF name = NoName THEN funcType ELSE name,
                               parameters |-> <<>>])
    /\ hist' = [hist EXCEPT !.func = Append(@, <<>>)]
    /\ raised' = ""
    /\ UNCHANGED <<params, lists, flists, fsets, models>>

\* lines 135-137: the error raised by addParameter(obj) and the list afterwards
addParameter(ps, obj) ==
    IF obj.kind # "Parameter"
    THEN [err |-> "ValueError", list |-> ps]
    ELSE [err |-> "", list |-> Append(ps, obj.id)]

\* f.addParameter(obj)
AddParameter(f, obj) ==
    LET r == addParameter(funcs[f].parameters, obj)
    IN  /\ raised' = r.err
        /\ funcs' = [funcs EXCEPT ![f].parameters = r.list]
        /\ hist' = IF r.err = "" THEN [hist EXCEPT !.func[f] = Append(@, obj.id)]
                   ELSE hist
        /\ UNCHANGED <<params, lists, flists, fsets, models>>

\* copy(p) for each p of a list of Parameters: new Parameter objects that hold
\* the attribute values (the limits object included) of their originals
CopyParameters(ids) == [i \in 1..Len(ids) |-> params[ids[i]]]

\* the places of n copies appended to a heap that holds `base` objects
NewIds(base, n) == [i \in 1..n |-> base + i]

\* deepcopy(f): FunctionDescription.__deepcopy__, lines 172-175
DuplicateFunction(f) ==
    LET ids == funcs[f].parameters
        new == NewIds(Len(params), Len(ids))
    IN  /\ params' = params \o CopyParameters(ids)
        /\ funcs' = Append(funcs, [funcs[f] EXCEPT !.parameters = new])
        /\ hist' = [hist EXCEPT !.func = Append(@, new), !.copyOf = @ \o ids]
        /\ raised' = ""
        /\ UNCHANGED <<lists, flists, fsets, models>>

\* A key is a string or something else.
Keys(names) ==
    {[str |-> TRUE, s |-> n] : n \in names} \cup {[str |-> FALSE, s |-> "0"]}

\* the name attribute of object i of a class
NameOf(kind, i) ==
    CASE kind = "Parameter" -> params[i].name
      [] kind = "Function" -> funcs[i].name
      [] kind = "FunctionSet" -> fsets[i].name

RECURSIVE FirstNamed(_, _, _)
\* the loop of __getitem__: the first element of ids named s, 0 if there is none
FirstNamed(ids, kind, s) ==
    IF ids = <<>> THEN 0
    ELSE IF NameOf(kind, Head(ids)) = s THEN Head(ids)
    ELSE FirstNamed(Tail(ids), kind, s)

\* __getitem__ of the three containers: lines 163-169, 253-259, 384-390
getitem(ids, kind, key) ==
    IF ~key.str THEN [err |-> "KeyError", ret |-> NoRef]
    ELSE IF FirstNamed(ids, kind, key.s) = 0 THEN [err |-> "KeyError", ret |-> NoRef]
    ELSE [err |-> "", ret |-> Ref(kind, FirstNamed(ids, kind, key.s))]

\* f[key], f.<key>
getParameter(f, key) == getitem(funcs[f].parameters, "Parameter", key)

GetParameter(f, key) ==
    /\ raised' = getParameter(f, key).err
    /\ UNCHANGED <<params, lists, funcs, flists, fsets, models, hist>>

(***************************************************************************)
(* FunctionSetDescription                                                  *)
(***************************************************************************)

\* ParameterDescription('X0', 0.0), ParameterDescription('Y0', 0.0): lines 182-183
CenterParameters ==
    <<[name |-> "X0", value |-> 0, limits |-> NoLimits, fixed |-> FALSE],
      [name |-> "Y0", value |-> 0, limits |-> NoLimits, fixed |-> FALSE]>>

\* the object FunctionSetDescription(name) builds on the current heap
FreshSet(name) ==
    [name |-> name, x0 |-> Len(params) + 1, y0 |-> Len(params) + 2,
     functions |-> Len(flists) + 1]

\* FunctionSetDescription(name): lines 180-187
NewFunctionSet(name) ==
    /\ params' = params \o CenterParameters
    /\ flists' = Append(flists, <<>>)
    /\ fsets' = Append(fsets, FreshSet(name))
    /\ hist' = [hist EXCEPT !.flist = Append(@, <<>>), !.copyOf = @ \o <<0, 0>>]
    /\ raised' = ""
    /\ UNCHANGED <<lists, funcs, models>>

\* _contains: lines 206-210 and 322-326
Contains(ids, kind, s) == \E i \in 1..Len(ids) : NameOf(kind, ids[i]) = s

\* An addFunction without the duplicate-name check.
addFunctionUnchecked(fl, obj) ==
    IF obj.kind # "Function" THEN [err |-> "ValueError", list |-> fl]
    ELSE [err |-> "", list |-> Append(fl, obj.id)]

\* lines 199-203: the error raised by addFunction(obj) and the list afterwards
addFunction(fl, obj) ==
    IF obj.kind # "Function" THEN [err |-> "ValueError", list |-> fl]
    ELSE IF Contains(fl, "Function", funcs[obj.id].name) THEN [err |-> "KeyError", list |-> fl]
    ELSE [err |-> "", list |-> Append(fl, obj.id)]

\* fs.addFunction(obj)
AddFunction(fs, obj) ==
    LET l == fsets[fs].functions
        r == addFunction(flists[l], obj)
    IN  /\ raised' = r.err
        /\ flists' = [flists EXCEPT ![l] = r.list]
        /\ hist' = IF r.err = "" THEN [hist EXCEPT !.flist[l] = Append(@, obj.id)]
                   ELSE hist
        /\ UNCHANGED <<params, lists, funcs, fsets, models>>

\* fs[key], fs.<key>
getFunction(fs, key) == getitem(flists[fsets[fs].functions], "Function", key)

GetFunction(fs, key) ==
    /\ raised' = getFunction(fs, key).err
    /\ UNCHANGED <<params, lists, funcs, flists, fsets, models, hist>>

RECURSIVE Flatten(_)
\* params.extend(...) over a sequence of lists
Flatten(ss) == IF ss = <<>> THEN <<>> ELSE Head(ss) \o Flatten(Tail(ss))

\* FunctionDescription.parameterList: line 149
FunctionParameterList(f) == funcs[f].parameters

\* A parameterList that puts the centre after the functions' parameters.
ParameterListCenterLast(fs) ==
    Flatten([i \in 1..Len(flists[fsets[fs].functions]) |->
                FunctionParameterList(flists[fsets[fs].functions][i])])
        \o <<fsets[fs].x0, fsets[fs].y0>>

\* FunctionSetDescription.parameterList: lines 234-239
ParameterList(fs) ==
    <<fsets[fs].x0, fsets[fs].y0>>
        \o Flatten([i \in 1..Len(flists[fsets[fs].functions]) |->
                       FunctionParameterList(flists[fsets[fs].functions][i])])

(***************************************************************************)
(* deepcopy of a list of FunctionSets.  The memo of deepcopy makes one     *)
(* copy of each `_functions` list and of each Function it meets; copy(p)   *)
(* of a Parameter is outside the memo and makes a copy at every call.      *)
(***************************************************************************)
RECURSIVE Distinct(_)
\* the elements of a sequence in the order of their first occurrence
Distinct(sq) ==
    IF sq = <<>> THEN <<>>
    ELSE LET d == Distinct(SubSeq(sq, 1, Len(sq) - 1))
             x == sq[Len(sq)]
         IN  IF \E i \in 1..Len(d) : d[i] = x THEN d ELSE Append(d, x)

IndexOf(sq, x) == CHOOSE i \in 1..Len(sq) : sq[i] = x

DeepCopySets(ss) ==
    LET L == Distinct([i \in 1..Len(ss) |-> fsets[ss[i]].functions])
        F == Distinct(Flatten([k \in 1..Len(L) |-> flists[L[k]]]))
        newFunc(f) == Len(funcs) + IndexOf(F, f)
        centers == Flatten([i \in 1..Len(ss) |-> <<fsets[ss[i]].x0, fsets[ss[i]].y0>>])
        fparams == [j \in 1..Len(F) |-> funcs[F[j]].parameters]
        start(j) == Len(params) + Len(centers) + Len(Flatten(SubSeq(fparams, 1, j - 1)))
        sources == centers \o Flatten(fparams)
    IN  [params |-> params \o CopyParameters(sources),
         funcs |-> funcs \o [j \in 1..Len(F) |->
                      [funcs[F[j]] EXCEPT !.parameters = NewIds(start(j), Len(fparams[j]))]],
         flists |-> flists \o [k \in 1..Len(L) |->
                      [j \in 1..Len(flists[L[k]]) |-> newFunc(flists[L[k]][j])]],
         fsets |-> fsets \o [i \in 1..Len(ss) |->
                      [name |-> fsets[ss[i]].name,
                       x0 |-> Len(params) + 2 * i - 1,
                       y0 |-> Len(params) + 2 * i,
                       functions |-> Len(flists) + IndexOf(L, fsets[ss[i]].functions)]],
         hist |-> [hist EXCEPT
                      !.func = @ \o [j \in 1..Len(F) |->
                                       NewIds(start(j), Len(hist.func[F[j]]))],
                      !.flist = @ \o [k \in 1..Len(L) |->
                                       [j \in 1..Len(hist.flist[L[k]]) |->
                                           newFunc(hist.flist[L[k]][j])]],
                      !.copyOf = @ \o sources]]

\* deepcopy(fs): FunctionSetDescription.__deepcopy__, lines 262-267
DuplicateFunctionSet(fs) ==
    LET c == DeepCopySets(<<fs>>)
    IN  /\ params' = c.params
        /\ funcs' = c.funcs
        /\ flists' = c.flists
        /\ fsets' = c.fsets
        /\ hist' = c.hist
        /\ raised' = ""
        /\ UNCHANGED <<lists, models>>

(***************************************************************************)
(* ModelDescription and SimpleModelDescription                             *)
(***************************************************************************)

\* ModelDescription(): lines 273-279
NewModel ==
    /\ models' = Append(models, [simple |-> FALSE, functionSets |-> <<>>])
    /\ hist' = [hist EXCEPT !.model = Append(@, <<>>)]
    /\ raised' = ""
    /\ UNCHANGED <<params, lists, funcs, flists, fsets>>

\* lines 315-319: the error raised by addFunctionSet(obj) and the list afterwards
addFunctionSet(sl, obj) ==
    IF obj.kind # "FunctionSet" THEN [err |-> "ValueError", list |-> sl]
    ELSE IF Contains(sl, "FunctionSet", fsets[obj.id].name) THEN [err |-> "KeyError", list |-> sl]
    ELSE [err |-> "", list |-> Append(sl, obj.id)]

\* m.addFunctionSet(obj); SimpleModelDescription inherits it
AddFunctionSet(m, obj) ==
    LET r == addFunctionSet(models[m].functionSets, obj)
    IN  /\ raised' = r.err
        /\ models' = [models EXCEPT ![m].functionSets = r.list]
        /\ hist' = IF r.err = "" THEN [hist EXCEPT !.model[m] = Append(@, obj.id)]
                   ELSE hist
        /\ UNCHANGED <<params, lists, funcs, flists, fsets>>

\* m[key]
getFunctionSet(m, key) == getitem(models[m].functionSets, "FunctionSet", key)

GetFunctionSet(m, key) ==
    /\ raised' = getFunctionSet(m, key).err
    /\ UNCHANGED <<params, lists, funcs, flists, fsets, models, hist>>

\* m.<key>: __getattr__, lines 380-381, overridden at lines 461-462
getattr(m, key) ==
    IF models[m].simple THEN getFunction(models[m].functionSets[1], key)
    ELSE getFunctionSet(m, key)

GetAttr(m, key) ==
    /\ raised' = getattr(m, key).err
    /\ UNCHANGED <<params, lists, funcs, flists, fsets, models, hist>>

\* ModelDescription.parameterList: lines 366-369
ModelParameterList(m) ==
    Flatten([i \in 1..Len(models[m].functionSets) |->
                ParameterList(models[m].functionSets[i])])

\* functionSetIndices: lines 336-339.  With two FunctionSets or more the loop
\* body runs: self.functionSets is no attribute, so __getattr__ looks up a child
\* named "functionSets", and a child so named would be indexed by an integer.
functionSetIndices(m) ==
    IF Len(models[m].functionSets) - 1 <= 0 THEN [err |-> "", ret |-> <<0>>]
    ELSE IF getattr(m, [str |-> TRUE, s |-> "functionSets"]).err # ""
    THEN [err |-> "KeyError", ret |-> <<>>]
    ELSE [err |-> getitem(<<>>, "Function", [str |-> FALSE, s |-> "0"]).err,
          ret |-> <<>>]

FunctionSetIndices(m) ==
    /\ raised' = functionSetIndices(m).err
    /\ UNCHANGED <<params, lists, funcs, flists, fsets, models, hist>>

\* the parameterList calls; they raise nothing and change nothing
QueryParameters(o) ==
    /\ o.kind \in {"FunctionSet", "Model"}
    /\ raised' = ""
    /\ UNCHANGED <<params, lists, funcs, flists, fsets, models, hist>>

\* deepcopy(m): ModelDescription.__deepcopy__, lines 393-396
DuplicateModel(m) ==
    LET c == DeepCopySets(models[m].functionSets)
        n == Len(models[m].functionSets)
    IN  /\ params' = c.params
        /\ funcs' = c.funcs
        /\ flists' = c.flists
        /\ fsets' = c.fsets
        /\ models' = Append(models, [models[m] EXCEPT !.functionSets = NewIds(Len(fsets), n)])
        /\ hist' = [c.hist EXCEPT !.model = Append(@, NewIds(Len(fsets), Len(hist.model[m])))]
        /\ raised' = ""
        /\ UNCHANGED lists

\* SimpleModelDescription(inst): lines 419-428; inst is None or any object
NewSimpleModel(inst) ==
    LET new == [simple |-> TRUE, functionSets |-> <<Len(fsets) + 1>>]
    IN  IF inst.kind = "Model" /\ Len(models[inst.id].functionSets) = 1
        THEN \* copy(inst._functionSets[0]): a new FunctionSet object holding the
             \* same x0, y0 and _functions objects
             /\ fsets' = Append(fsets, fsets[models[inst.id].functionSets[1]])
             /\ models' = Append(models, new)
             /\ hist' = [hist EXCEPT !.model = Append(@, new.functionSets)]
             /\ raised' = ""
             /\ UNCHANGED <<params, lists, funcs, flists>>
        ELSE IF inst = NoRef
        THEN /\ params' = params \o CenterParameters
             /\ flists' = Append(flists, <<>>)
             /\ fsets' = Append(fsets, FreshSet("fs"))
             /\ models' = Append(models, new)
             /\ hist' = [hist EXCEPT !.flist = Append(@, <<>>), !.copyOf = @ \o <<0, 0>>,
                                     !.model = Append(@, new.functionSets)]
             /\ raised' = ""
             /\ UNCHANGED <<lists, funcs>>
        ELSE /\ raised' = "ValueError"
             /\ UNCHANGED <<params, lists, funcs, flists, fsets, models, hist>>

\* SimpleModelDescription.addFunction: line 458
SimpleAddFunction(m, obj) ==
    /\ models[m].simple
    /\ AddFunction(models[m].functionSets[1], obj)

(***************************************************************************)
(* Specifications.  Each explores the operations of one part of the        *)
(* hierarchy on a heap of bounded size:                                    *)
(*   SpecParam  one Parameter and its setters;                             *)
(*   Spec       Parameters, their setters, and Functions with their copies;*)
(*   SpecFail   the operations that can fail, on one Model;                *)
(*   SpecBuild  a Model built bottom-up, and its lookups;                  *)
(*   SpecTree   Models, SimpleModels and the copies of all levels, over    *)
(*              Parameters that are not modified.                          *)
(***************************************************************************)
IsCenter(i) == params[i].name \in {"X0", "Y0"}

Built == {i \in 1..Len(params) : ~IsCenter(i)}

Within(np, nl, nf, nfp, ns, nm) ==
    /\ Len(params) <= np
    /\ Len(lists) <= nl
    /\ Len(funcs) <= nf
    /\ \A f \in 1..Len(funcs) : Len(funcs[f].parameters) <= nfp
    /\ Len(fsets) <= ns
    /\ Len(models) <= nm

\* the arguments a caller passes to addParameter: the Parameters it built, and
\* objects of the other kinds
Candidates == {o \in Objects : o.kind = "Parameter" => ~IsCenter(o.id)}

\* the objects of one kind
Kind(k) == {o \in Objects : o.kind = k}

NoLimitsArg == [src |-> "none", pair |-> <<0, 0>>]

One == Within(MaxParamObjs, MaxParamLists, 0, 0, 0, 0)

NextParam ==
    \/ \E n \in ParamNames, v \in Values, a \in NewLimitArgs, fx \in BOOLEAN :
          NewParameter(n, v, a, fx) /\ One'
    \/ \E p \in 1..Len(params), v \in Values, a \in LimitArgs, fx \in BOOLEAN :
          SetValue(p, v, a, fx) /\ One'
    \/ \E p \in 1..Len(params), t \in Tols : SetTolerance(p, t)
    \/ \E p \in 1..Len(params), v1 \in LimitValues, v2 \in LimitValues : SetLimits(p, v1, v2)
    \/ \E p \in 1..Len(params), i1 \in Deltas, i2 \in Deltas : SetLimitsRel(p, i1, i2)

SpecParam == Init /\ [][NextParam]_vars

Small == Within(MaxParams, MaxLists, MaxFuncs, MaxFuncParams, 0, 0)

Next ==
    \/ \E v \in Values, a \in NewLimitArgs, fx \in BOOLEAN :
          NewParameter("I_0", v, a, fx) /\ Small'
    \/ \E p \in 1..Len(params), v \in Values, a \in LimitArgs, fx \in BOOLEAN :
          SetValue(p, v, a, fx) /\ Small'
    \/ \E p \in 1..Len(params), t \in Tols : SetTolerance(p, t)
    \/ \E p \in 1..Len(params), v1 \in Values, v2 \in Values : SetLimits(p, v1, v2)
    \/ \E p \in 1..Len(params), i1 \in Deltas, i2 \in Deltas : SetLimitsRel(p, i1, i2)
    \/ NewFunction("Gaussian", NoName) /\ Small'
    \/ \E f \in 1..Len(funcs), o \in Objects : AddParameter(f, o) /\ Small'
    \/ \E f \in 1..Len(funcs) : DuplicateFunction(f) /\ Small'

Spec == Init /\ [][Next]_vars

Fail == Within(MaxFailParams, 0, MaxFailFuncs, MaxFailFuncParams, MaxFailSets, MaxFailModels)

NextFail ==
    \/ NewParameter("I_0", 2, NoLimitsArg, FALSE) /\ Fail'
    \/ \E p \in 1..Len(params), t \in Tols : SetTolerance(p, t)
    \/ \E p \in 1..Len(params), v1 \in Values, v2 \in Values : SetLimits(p, v1, v2)
    \/ \E p \in 1..Len(params), i1 \in Deltas, i2 \in Deltas : SetLimitsRel(p, i1, i2)
    \/ NewFunction("Gaussian", NoName) /\ Fail'
    \/ \E f \in 1..Len(funcs), o \in Objects : AddParameter(f, o) /\ Fail'
    \/ NewFunctionSet("fs") /\ Fail'
    \/ \E fs \in 1..Len(fsets), o \in Objects : AddFunction(fs, o)
    \/ NewModel /\ Fail'
    \/ \E m \in 1..Len(models), o \in Objects : AddFunctionSet(m, o)
    \/ \E f \in 1..Len(funcs), k \in Keys(ParamNames) : GetParameter(f, k)
    \/ \E fs \in 1..Len(fsets), k \in Keys(FuncTypes) : GetFunction(fs, k)
    \/ \E m \in 1..Len(models), k \in Keys(SetNames) : GetFunctionSet(m, k)

SpecFail == Init /\ [][NextFail]_vars

Build ==
    /\ Within(MaxBuildParams + 2 * MaxBuildSets, 0, MaxBuildFuncs, MaxBuildFuncParams,
              MaxBuildSets, MaxBuildModels)
    /\ Cardinality(Built) <= MaxBuildParams

\* The caller of SpecBuild names the objects it builds in a fixed order, and
\* passes to an add an object of the kind the add is for.
NextType == IF funcs = <<>> THEN "Gaussian" ELSE "Moffat"
NextSetName == IF fsets = <<>> THEN "fs" ELSE "fs2"

NextBuild ==
    \/ NewParameter("I_0", 2, NoLimitsArg, FALSE) /\ Build'
    \/ NewFunction(NextType, NoName) /\ Build'
    \/ \E f \in 1..Len(funcs), o \in Candidates \cap Kind("Parameter") :
          AddParameter(f, o) /\ Build'
    \/ \E f \in 1..Len(funcs), k \in Keys(ParamNames) : GetParameter(f, k)
    \/ NewFunctionSet(NextSetName) /\ Build'
    \/ \E fs \in 1..Len(fsets), o \in Kind("Function") : AddFunction(fs, o)
    \/ \E fs \in 1..Len(fsets), k \in Keys(FuncTypes) : GetFunction(fs, k)
    \/ NewModel /\ Build'
    \/ \E m \in 1..Len(models), o \in Kind("FunctionSet") : AddFunctionSet(m, o)
    \/ \E m \in 1..Len(models), k \in Keys(SetNames) : GetFunctionSet(m, k)
    \/ \E o \in Objects : QueryParameters(o)

SpecBuild == Init /\ [][NextBuild]_vars

Tree ==
    /\ Within(MaxTreeParams + 2 * MaxTreeSets, 0, MaxTreeFuncs, MaxTreeFuncParams,
              MaxTreeSets, MaxTreeModels)
    /\ Cardinality(Built) <= MaxTreeParams

NextTree ==
    \/ NewParameter("I_0", 2, NoLimitsArg, FALSE) /\ Tree'
    \/ NewFunction("Gaussian", NoName) /\ Tree'
    \/ \E f \in 1..Len(funcs), o \in Candidates : AddParameter(f, o) /\ Tree'
    \/ \E f \in 1..Len(funcs), k \in Keys(ParamNames) : GetParameter(f, k)
    \/ \E f \in 1..Len(funcs) : DuplicateFunction(f) /\ Tree'
    \/ \E n \in SetNames : NewFunctionSet(n) /\ Tree'
    \/ \E fs \in 1..Len(fsets), o \in Objects : AddFunction(fs, o)
    \/ \E fs \in 1..Len(fsets), k \in Keys(FuncTypes) : GetFunction(fs, k)
    \/ \E fs \in 1..Len(fsets) : DuplicateFunctionSet(fs) /\ Tree'
    \/ NewModel /\ Tree'
    \/ \E m \in 1..Len(models), o \in Objects : AddFunctionSet(m, o)
    \/ \E m \in 1..Len(models), k \in Keys(SetNames) : GetFunctionSet(m, k)
    \/ \E m \in 1..Len(models), k \in Keys(SetNames \cup FuncTypes) : GetAttr(m, k)
    \/ \E m \in 1..Len(models) : FunctionSetIndices(m)
    \/ \E o \in Objects : QueryParameters(o)
    \/ \E m \in 1..Len(models) : DuplicateModel(m) /\ Tree'
    \/ \E i \in Objects \cup {NoRef} : NewSimpleModel(i) /\ Tree'
    \/ \E m \in 1..Len(models), o \in Objects : SimpleAddFunction(m, o)

SpecTree == Init /\ [][NextTree]_vars

(***************************************************************************)
(* Properties                                                              *)
(***************************************************************************)

RECURSIVE Concat(_, _)
\* the first n lists of ss, one after the other
Concat(ss, n) == IF n = 0 THEN <<>> ELSE Concat(ss, n - 1) \o ss[n]

\* what the history of adds says parameters() of FunctionSet fs must return
ExpectedParameters(fs) ==
    LET fl == hist.flist[fsets[fs].functions]
    IN  <<fsets[fs].x0, fsets[fs].y0>> \o Concat([i \in 1..Len(fl) |-> hist.func[fl[i]]], Len(fl))

\* C1: parameters() of a FunctionSet is [x0, y0] followed by the Parameters of
\* its Functions, Functions and Parameters in the order they were added; and
\* parameters() of a Model is the concatenation of parameters() of its
\* FunctionSets in the order they were added.
C1_ParameterOrder ==
    /\ \A fs \in 1..Len(fsets) : ParameterList(fs) = ExpectedParameters(fs)
    /\ \A m \in 1..Len(models) :
          ModelParameterList(m) =
              Concat([i \in 1..Len(hist.model[m]) |-> ParameterList(hist.model[m][i])],
                     Len(hist.model[m]))

\* a Model of two FunctionSets, the first with two Functions, the first of
\* these with two different Parameters
C1_Witness ==
    \E m \in 1..Len(models) :
        /\ Len(models[m].functionSets) = 2
        /\ LET fl == flists[fsets[models[m].functionSets[1]].functions]
           IN  /\ Len(fl) = 2
               /\ Len(funcs[fl[1]].parameters) = 2
               /\ funcs[fl[1]].parameters[1] # funcs[fl[1]].parameters[2]

NamesDistinct(ids, kind) ==
    \A i, j \in 1..Len(ids) : i # j => NameOf(kind, ids[i]) # NameOf(kind, ids[j])

UniqueNames ==
    /\ \A fs \in 1..Len(fsets) : NamesDistinct(flists[fsets[fs].functions], "Function")
    /\ \A m \in 1..Len(models) : NamesDistinct(models[m].functionSets, "FunctionSet")

\* C2: the Functions of a FunctionSet have distinct names, and so have the
\* FunctionSets of a Model; addFunction and addFunctionSet raise the
\* duplicate-name error exactly when a child of that name is present, and
\* append otherwise.
C2_UniqueNames ==
    [][/\ UniqueNames'
       /\ \A fs \in 1..Len(fsets), o \in Kind("Function") :
             AddFunction(fs, o) =>
                LET l == fsets[fs].functions
                    present == \E i \in 1..Len(flists[l]) :
                                  funcs[flists[l][i]].name = funcs[o.id].name
                IN  IF present THEN raised' = "KeyError" /\ flists' = flists
                    ELSE raised' = "" /\ flists'[l] = Append(flists[l], o.id)
       /\ \A m \in 1..Len(models), o \in Kind("FunctionSet") :
             AddFunctionSet(m, o) =>
                LET sl == models[m].functionSets
                    present == \E i \in 1..Len(sl) : fsets[sl[i]].name = fsets[o.id].name
                IN  IF present THEN raised' = "KeyError" /\ models' = models
                    ELSE raised' = "" /\ models'[m].functionSets = Append(sl, o.id)
      ]_vars

\* a call has raised KeyError where a FunctionSet holds a Function and another
\* Function of the same name exists, and a Model holds a FunctionSet
C2_Witness ==
    /\ raised = "KeyError"
    /\ \E fs \in 1..Len(fsets), g \in 1..Len(funcs) :
          /\ flists[fsets[fs].functions] # <<>>
          /\ g # flists[fsets[fs].functions][1]
          /\ funcs[g].name = funcs[flists[fsets[fs].functions][1]].name
    /\ \E m \in 1..Len(models) : models[m].functionSets # <<>>

\* what a caller can read of a Parameter: value, fixed flag, and the limits
LimitsOf(ps, ls, p) ==
    IF ps[p].limits.kind = "None" THEN <<>>
    ELSE <<Lower(ls, ps[p].limits), Upper(ls, ps[p].limits)>>

Visible(ps, ls, p) ==
    [name |-> ps[p].name, value |-> ps[p].value, fixed |-> ps[p].fixed,
     limits |-> LimitsOf(ps, ls, p)]

RECURSIVE Originals(_)
\* the Parameters that Parameter p is, directly or not, a copy of
Originals(p) ==
    IF hist.copyOf[p] = 0 THEN {} ELSE {hist.copyOf[p]} \cup Originals(hist.copyOf[p])

\* a step that is a call of a setter of Parameter q
SetterOn(q) ==
    \/ \E v \in Values, a \in LimitArgs, fx \in BOOLEAN : SetValue(q, v, a, fx)
    \/ \E t \in Tols : SetTolerance(q, t)
    \/ \E v1 \in Values, v2 \in Values : SetLimits(q, v1, v2)
    \/ \E i1 \in Deltas, i2 \in Deltas : SetLimitsRel(q, i1, i2)

\* C3: the Parameters of a duplicate start with the name, value, limits and
\* fixed flag of their originals, and afterwards no setter called on a copy
\* changes what is read of an original, nor one called on an original what is
\* read of a copy; setValue passed the Parameter's own limits included.
C3_DuplicateIsIndependent ==
    [][/\ \A c \in (Len(params) + 1)..Len(params') :
             hist'.copyOf[c] # 0 =>
                Visible(params', lists', c) = Visible(params, lists, hist'.copyOf[c])
       /\ \A q \in 1..Len(params), p \in 1..Len(params) :
             (p \in Originals(q) \/ q \in Originals(p)) /\ SetterOn(q) =>
                Visible(params', lists', p) = Visible(params, lists, p)
      ]_vars

\* C4: a call that raises leaves every object unchanged; addParameter of a
\* non-Parameter, addFunction and addFunctionSet of a wrong kind or of a name
\* already present, setLimits with lower >= upper, setLimitsRel with a negative
\* delta or deltas that make lower >= upper, and setTolerance outside [0, 1]
\* raise.
C4_FailedCallChangesNothing ==
    [][/\ raised' # "" => heap' = heap
       /\ \A f \in 1..Len(funcs), o \in Objects :
             AddParameter(f, o) /\ o.kind # "Parameter" => raised' # "" /\ heap' = heap
       /\ \A fs \in 1..Len(fsets), o \in Objects :
             /\ AddFunction(fs, o)
             /\ \/ o.kind # "Function"
                \/ \E i \in 1..Len(flists[fsets[fs].functions]) :
                      funcs[flists[fsets[fs].functions][i]].name = funcs[o.id].name
             => raised' # "" /\ heap' = heap
       /\ \A m \in 1..Len(models), o \in Objects :
             /\ AddFunctionSet(m, o)
             /\ \/ o.kind # "FunctionSet"
                \/ \E i \in 1..Len(models[m].functionSets) :
                      fsets[models[m].functionSets[i]].name = fsets[o.id].name
             => raised' # "" /\ heap' = heap
       /\ \A p \in 1..Len(params), v1 \in Values, v2 \in Values :
             SetLimits(p, v1, v2) /\ v1 >= v2 => raised' # "" /\ heap' = heap
       /\ \A p \in 1..Len(params), i1 \in Deltas, i2 \in Deltas :
             /\ SetLimitsRel(p, i1, i2)
             /\ (i1 < 0 \/ i2 < 0 \/ params[p].value - i1 >= params[p].value + i2)
             => raised' # "" /\ heap' = heap
       /\ \A p \in 1..Len(params), t \in Tols :
             SetTolerance(p, t) /\ (t < 0 \/ t > 2) => raised' # "" /\ heap' = heap
      ]_vars

\* a setter has raised on a Parameter that has limits, held by a Function
C4_Witness ==
    /\ raised = "Exception"
    /\ \E f \in 1..Len(funcs) :
          /\ funcs[f].parameters # <<>>
          /\ params[funcs[f].parameters[1]].limits.kind = "tuple"

\* C5: whenever a Parameter has limits, lower <= upper and
\* lower <= value <= upper.
C5_ValueWithinLimits ==
    \A p \in 1..Len(params) :
        params[p].limits.kind # "None" =>
            /\ Lower(lists, params[p].limits) <= Upper(lists, params[p].limits)
            /\ Lower(lists, params[p].limits) <= params[p].value
            /\ params[p].value <= Upper(lists, params[p].limits)

\* C6: a SimpleModel holds exactly one FunctionSet.
C6_SimpleModelHasOneSet ==
    \A m \in 1..Len(models) : models[m].simple => Len(models[m].functionSets) = 1

\* C7: at each level, lookup of the name of an added child returns that child,
\* and lookup of a name no child has raises the not-found error.
C7_LookupReturnsAdded ==
    /\ \A f \in 1..Len(funcs) :
          /\ \A i \in 1..Len(funcs[f].parameters) :
                getParameter(f, [str |-> TRUE, s |-> params[funcs[f].parameters[i]].name])
                    = [err |-> "", ret |-> Ref("Parameter", funcs[f].parameters[i])]
          /\ \A n \in ParamNames :
                (\A i \in 1..Len(funcs[f].parameters) : params[funcs[f].parameters[i]].name # n)
                    => getParameter(f, [str |-> TRUE, s |-> n]).err = "KeyError"
    /\ \A fs \in 1..Len(fsets) :
          /\ \A i \in 1..Len(flists[fsets[fs].functions]) :
                getFunction(fs, [str |-> TRUE, s |-> funcs[flists[fsets[fs].functions][i]].name])
                    = [err |-> "", ret |-> Ref("Function", flists[fsets[fs].functions][i])]
          /\ \A n \in FuncTypes :
                (\A i \in 1..Len(flists[fsets[fs].functions]) :
                    funcs[flists[fsets[fs].functions][i]].name # n)
                    => getFunction(fs, [str |-> TRUE, s |-> n]).err = "KeyError"
    /\ \A m \in 1..Len(models) :
          /\ \A i \in 1..Len(models[m].functionSets) :
                getFunctionSet(m, [str |-> TRUE, s |-> fsets[models[m].functionSets[i]].name])
                    = [err |-> "", ret |-> Ref("FunctionSet", models[m].functionSets[i])]
          /\ \A n \in SetNames :
                (\A i \in 1..Len(models[m].functionSets) :
                    fsets[models[m].functionSets[i]].name # n)
                    => getFunctionSet(m, [str |-> TRUE, s |-> n]).err = "KeyError"

Range(sq) == {sq[i] : i \in 1..Len(sq)}

\* the FunctionSets, Functions and Parameters reached from Model m
SetsOf(m) == Range(models[m].functionSets)
FunctionsOf(m) == UNION {Range(flists[fsets[fs].functions]) : fs \in SetsOf(m)}
ParametersOf(m) ==
    UNION {{fsets[fs].x0, fsets[fs].y0} : fs \in SetsOf(m)}
        \cup UNION {Range(funcs[f].parameters) : f \in FunctionsOf(m)}

\* C8: no two FunctionSets hold the same Function, x0, y0 or list of Functions,
\* and no two Models reach the same FunctionSet, Function or Parameter.
C8_ExclusiveOwnership ==
    /\ \A a, b \in 1..Len(fsets) :
          a # b =>
             /\ fsets[a].functions # fsets[b].functions
             /\ {fsets[a].x0, fsets[a].y0} \cap {fsets[b].x0, fsets[b].y0} = {}
             /\ Range(flists[fsets[a].functions]) \cap Range(flists[fsets[b].functions]) = {}
    /\ \A m, n \in 1..Len(models) :
          m # n =>
             /\ SetsOf(m) \cap SetsOf(n) = {}
             /\ FunctionsOf(m) \cap FunctionsOf(n) = {}
             /\ ParametersOf(m) \cap ParametersOf(n) = {}

\* C9: functionSetIndices of a Model of k >= 1 FunctionSets returns k entries,
\* the first 0 and entry i the number of Parameters of FunctionSet i-1; of a
\* Model of no FunctionSet it returns [0].
C9_SplitIndices ==
    \A m \in 1..Len(models) :
        LET k == Len(models[m].functionSets)
            r == functionSetIndices(m)
        IN  /\ r.err = ""
            /\ k = 0 => r.ret = <<0>>
            /\ k >= 1 =>
                  /\ Len(r.ret) = k
                  /\ r.ret[1] = 0
                  /\ \A i \in 2..k :
                        r.ret[i] = Len(ParameterList(models[m].functionSets[i - 1]))

\* C10: a setValue that returns leaves the Parameter with the value, the limits
\* and the fixed flag of the call (no limits and free when they are omitted) and
\* with its name; nothing of the limits or the fixed flag it had is kept.
C10_SetValueReplacesAll ==
    [][\A p \in 1..Len(params), v \in Values, a \in LimitArgs, fx \in BOOLEAN :
          SetValue(p, v, a, fx) /\ raised' = "" =>
             /\ params'[p].name = params[p].name
             /\ params'[p].value = v
             /\ params'[p].fixed = fx
             /\ params'[p].limits = ArgLimits(a, p)
             /\ a.src = "none" => LimitsOf(params', lists', p) = <<>>
      ]_vars

\* a Parameter that setValue left fixed, with the list it was passed widened
C10_Witness ==
    \E p \in 1..Len(params) :
        /\ params[p].fixed
        /\ params[p].value = -2
        /\ params[p].limits.kind = "list"
        /\ LimitsOf(params, lists, p) = <<-2, 2>>

====
